---- MODULE Spec2Model ----
(***************************************************************************)
(* A model of sysctl_loader: the nom-based parsers of the sysctl and the   *)
(* schema grammar (src/src/parser), the type inference (src/src/types.rs)  *)
(* and the schema validation (src/src/validation.rs).                      *)
(*                                                                         *)
(* A text is a sequence of one-character strings.  A nom IResult is a      *)
(* record: [ok |-> TRUE, rest |-> remaining input, out |-> output] or      *)
(* [ok |-> FALSE].  The many0 loops of parse_sysctl and parse_schema are   *)
(* stepped one iteration per action, so that every accepted unit can be    *)
(* compared with the input it was read from.                               *)
(***************************************************************************)
EXTENDS Integers, Sequences, FiniteSets, TLC

VARIABLES
    pc,        \* position of the program
    input,     \* the text handed to the parser or to from_str
    rest,      \* the input the running many0 loop has not consumed yet
    kvs,       \* parse_sysctl: the units many0 has collected (sysctl.rs:47)
    entries,   \* parse_schema: the entries many0 has collected (schema.rs:45)
    value,     \* validate_by_schema: the configuration map (validation.rs:6)
    schema,    \* validate_by_schema: the schema (validation.rs:7)
    result,    \* what the operation returned
    pass,      \* round trip: 1 for the first parse, 2 for the parse of the rendered map
    first      \* round trip: the map of the first parse

vars == <<pc, input, rest, kvs, entries, value, schema, result, pass, first>>

(* Bounds of the checked inputs. *)
MaxLen == 6
MaxPieces == 4
MaxEntries == 2

None == [none |-> TRUE]

(***************************************************************************)
(* Sequences                                                               *)
(***************************************************************************)
Drop(s, n) == SubSeq(s, n + 1, Len(s))

Take(s, n) == SubSeq(s, 1, n)

IsPrefix(p, s) == Len(p) <= Len(s) /\ Take(s, Len(p)) = p

\* The number of leading characters of s that are not in Stop.
RunLen(s, Stop) ==
    IF \E i \in 1..Len(s) : s[i] \in Stop
    THEN (CHOOSE i \in 1..Len(s) : s[i] \in Stop /\ \A j \in 1..(i - 1) : s[j] \notin Stop) - 1
    ELSE Len(s)

RECURSIVE Flatten(_)
Flatten(ss) == IF ss = <<>> THEN <<>> ELSE Head(ss) \o Flatten(Tail(ss))

TextsUpTo(Alphabet, n) == UNION {[1..k -> Alphabet] : k \in 0..n}

RECURSIVE Orders(_)
\* Every sequence that lists each element of S once: the iteration orders of a hash set.
Orders(S) ==
    IF S = {} THEN {<<>>}
    ELSE UNION {{<<x>> \o o : o \in Orders(S \ {x})} : x \in S}

(***************************************************************************)
(* Characters                                                              *)
(***************************************************************************)
\* nom's multispace1: space, tab, carriage return, line feed.
Multispace == {" ", "\t", "\r", "\n"}

\* char::is_whitespace, on the characters a TLA+ string can hold.
Whitespace == {" ", "\t", "\r", "\n", "\f"}

Newline == {"\r", "\n"}

(***************************************************************************)
(* nom results                                                             *)
(***************************************************************************)
Ok(r, o) == [ok |-> TRUE, rest |-> r, out |-> o]

Err == [ok |-> FALSE]

tag(t, s) == IF IsPrefix(t, s) THEN Ok(Drop(s, Len(t)), t) ELSE Err

(***************************************************************************)
(* src/src/parser/util.rs                                                  *)
(***************************************************************************)
comment(s) ==
    IF s # <<>> /\ s[1] \in {";", "#"}
    THEN LET t == Tail(s)
             after == Drop(t, RunLen(t, Newline))
         IN  IF after = <<>> THEN Ok(<<>>, None)
             ELSE IF IsPrefix(<<"\n">>, after) THEN Ok(Drop(after, 1), None)
             ELSE IF IsPrefix(<<"\r", "\n">>, after) THEN Ok(Drop(after, 2), None)
             ELSE Err
    ELSE Err

RECURSIVE skip0(_)
skip0(s) ==
    LET c == comment(s)
    IN  IF c.ok THEN skip0(c.rest)
        ELSE IF s # <<>> /\ s[1] \in Multispace
             THEN skip0(Drop(s, RunLen(s, {x \in {s[i] : i \in 1..Len(s)} : x \notin Multispace})))
             ELSE Ok(s, None)

hyphen(s) == tag(<<"-">>, skip0(s).rest)

equals(s) == tag(<<"=">>, skip0(s).rest)

colon(s) == tag(<<":">>, skip0(s).rest)

(***************************************************************************)
(* src/src/parser/sysctl.rs                                                *)
(***************************************************************************)
parse_key(s) ==
    LET r == skip0(s).rest
        n == RunLen(r, Whitespace \cup {"="})
    IN  Ok(Drop(r, n), Take(r, n))

RECURSIVE trim_start(_)
trim_start(s) == IF s # <<>> /\ s[1] \in Whitespace THEN trim_start(Tail(s)) ELSE s

RECURSIVE trim_end(_)
trim_end(s) ==
    IF s # <<>> /\ s[Len(s)] \in Whitespace THEN trim_end(Take(s, Len(s) - 1)) ELSE s

trim(s) == trim_end(trim_start(s))

parse_value(s) ==
    LET r == skip0(s).rest
        n == RunLen(r, Newline)
    IN  Ok(Drop(r, n), trim(Take(r, n)))

SysctlValue(v, ie) == [value |-> v, ignore_error |-> ie]

\* A mutant of parse_key_value: the "-" is looked at but not consumed.
parse_key_value_keeps_hyphen(s) ==
    LET h == hyphen(s)
        k == parse_key(s)
        e == equals(k.rest)
    IN  IF ~e.ok THEN Err
        ELSE LET v == parse_value(e.rest)
             IN  Ok(v.rest, [key |-> k.out, val |-> SysctlValue(v.out, h.ok)])

parse_key_value(s) ==
    LET h == hyphen(s)
        opt_hyphen == IF h.ok THEN h ELSE Ok(s, None)
        k == parse_key(opt_hyphen.rest)
        e == equals(k.rest)
    IN  IF ~e.ok THEN Err
        ELSE LET v == parse_value(e.rest)
             IN  Ok(v.rest, [key |-> k.out, val |-> SysctlValue(v.out, h.ok)])

\* delimited(skip0, parse_key_value, skip0): one iteration of parse_sysctl's many0.
delimited_key_value(s) ==
    LET kv == parse_key_value(skip0(s).rest)
    IN  IF kv.ok THEN Ok(skip0(kv.rest).rest, kv.out) ELSE Err

\* A mutant of insert: the record of a key already in the map is kept.
insert_keep_first(m, kv) ==
    [k \in DOMAIN m \cup {kv.key} |-> IF k \in DOMAIN m THEN m[k] ELSE kv.val]

\* One insertion into the HashMap: a later record replaces an earlier one of the same key.
insert(m, kv) == [k \in DOMAIN m \cup {kv.key} |-> IF k = kv.key THEN kv.val ELSE m[k]]

RECURSIVE collect_from(_, _)
collect_from(m, s) == IF s = <<>> THEN m ELSE collect_from(insert(m, Head(s)), Tail(s))

\* kvs.into_iter().collect::<HashMap<_, _>>()
collect(s) == collect_from(<<>>, s)

(***************************************************************************)
(* parse_sysctl, stepped: terminated(many0(delimited(..)), eof), then the  *)
(* collection of the units into the map.                                   *)
(***************************************************************************)
SysctlAlphabet == {"a", "=", "-", "#", " ", "\n"}

\* Longer texts: the scenario of sysctl.rs:74-127 with short names ("k1 = v1", then
\* "-k2 = v2"), and two keys of which the last has no value.
SysctlExamples ==
    { <<"k", "1", " ", "=", " ", "v", "1", "\n", "-", "k", "2", " ", "=", " ", "v", "2", "\n">>,
      <<"b", "=", "x", "\n", "a", "=">> }

SysctlTexts == TextsUpTo(SysctlAlphabet, MaxLen) \cup SysctlExamples

InitSysctl ==
    /\ input \in SysctlTexts
    /\ rest = input
    /\ pc = "many0"
    /\ kvs = <<>>
    /\ entries = <<>>
    /\ value = None
    /\ schema = None
    /\ result = None
    /\ pass = 1
    /\ first = None

\* One iteration of many0 (sysctl.rs:46): a unit is collected, or the loop ends on the
\* first recoverable error with the input of that iteration.
ParseSysctlMany0 ==
    /\ pc = "many0"
    /\ LET r == delimited_key_value(rest)
       IN  IF r.ok
           THEN /\ kvs' = Append(kvs, r.out)
                /\ rest' = r.rest
                /\ pc' = "many0"
           ELSE /\ pc' = "eof"
                /\ UNCHANGED <<kvs, rest>>
    /\ UNCHANGED <<input, entries, value, schema, result, pass, first>>

\* terminated(.., eof) and the map over the collected units (sysctl.rs:45-48).
ParseSysctlEof ==
    /\ pc = "eof"
    /\ result' = IF rest = <<>> THEN Ok(<<>>, collect(kvs)) ELSE Err
    /\ pc' = "done"
    /\ UNCHANGED <<input, rest, kvs, entries, value, schema, pass, first>>

\* One line of the rendered map: the key, "=", the value, with "-" before an
\* ignore_error key.
RenderLine(k, v) ==
    (IF v.ignore_error THEN <<"-">> ELSE <<>>) \o k \o <<"=">> \o v.value \o <<"\n">>

RenderMap(m, order) == Flatten([i \in 1..Len(order) |-> RenderLine(order[i], m[order[i]])])

\* The round trip: the map of a successful parse is rendered, its keys in any order (a
\* HashMap iterates in no fixed order), and the text is parsed again.
Render ==
    /\ pc = "done"
    /\ pass = 1
    /\ result.ok
    /\ \E order \in Orders(DOMAIN result.out) :
          /\ input' = RenderMap(result.out, order)
          /\ rest' = input'
    /\ first' = result.out
    /\ kvs' = <<>>
    /\ result' = None
    /\ pass' = 2
    /\ pc' = "many0"
    /\ UNCHANGED <<entries, value, schema>>

NextSysctl == ParseSysctlMany0 \/ ParseSysctlEof \/ Render

SpecSysctl == InitSysctl /\ [][NextSysctl]_vars

(***************************************************************************)
(* Claims about parse_sysctl                                               *)
(***************************************************************************)
\* A step of many0 that collected a unit.
UnitAccepted == pc = "many0" /\ pc' = "many0" /\ Len(kvs') = Len(kvs) + 1

\* The unit the step collected.
NewUnit == kvs'[Len(kvs')]

\* The input of the step from its first character that is neither blank nor comment.
UnitText == skip0(rest).rest

BeganWithHyphen == UnitText # <<>> /\ UnitText[1] = "-"

\* The input of the step from the first character of the key.
KeyText == skip0(IF BeganWithHyphen THEN Tail(UnitText) ELSE UnitText).rest

\* The input of the step after the "=" that follows the key.
AfterEquals == Tail(skip0(Drop(KeyText, Len(NewUnit.key))).rest)

\* C6: every accepted unit has ignore_error = TRUE exactly when it began with "-", and
\* its key is the text read after that "-", which is not part of the key.
C6_IgnoreErrorIffHyphen ==
    [][UnitAccepted =>
          /\ NewUnit.val.ignore_error = BeganWithHyphen
          /\ IsPrefix(NewUnit.key, KeyText)
          /\ LET after == Drop(KeyText, Len(NewUnit.key))
             IN  after # <<>> /\ after[1] \in Whitespace \cup {"="}]_vars

C6_Witness ==
    /\ pc = "done" /\ pass = 1 /\ result.ok
    /\ \E k \in DOMAIN result.out : k # <<>> /\ result.out[k].ignore_error
    /\ \E k \in DOMAIN result.out : k # <<>> /\ ~result.out[k].ignore_error
    /\ \A k \in DOMAIN result.out : "-" \notin {k[i] : i \in 1..Len(k)}

\* C7: the value of every accepted unit is the text between its "=" and the end of
\* that line (or of the input), trimmed; nothing of a following line is part of it.
C7_ValueIsRestOfLine ==
    [][UnitAccepted =>
          NewUnit.val.value = trim(Take(AfterEquals, RunLen(AfterEquals, Newline)))]_vars

\* The keys of the collected units.
UnitKeys == {kvs[i].key : i \in 1..Len(kvs)}

LastUnit(k) == kvs[CHOOSE i \in 1..Len(kvs) :
                      kvs[i].key = k /\ \A j \in (i + 1)..Len(kvs) : kvs[j].key # k]

\* C8: the map of a successful parse holds every key that occurs in a unit, and for
\* each the record (value and ignore_error) of its last occurrence.
C8_LastOccurrenceWins ==
    (pc = "done" /\ result.ok) =>
        /\ DOMAIN result.out = UnitKeys
        /\ \A k \in UnitKeys : result.out[k] = LastUnit(k).val

C8_Witness ==
    /\ pc = "done" /\ pass = 1 /\ result.ok
    /\ \E i, j \in 1..Len(kvs) :
          /\ i < j
          /\ kvs[i].key = kvs[j].key
          /\ kvs[i].key # <<>>
          /\ kvs[i].val # kvs[j].val
          /\ result.out[kvs[i].key] = kvs[j].val

\* C10: the text rendered from the map of a successful parse (here: one whose keys are
\* not empty) parses again, to an equal map.
C10_RoundTrip ==
    (pc = "done" /\ pass = 2 /\ \A k \in DOMAIN first : k # <<>>) =>
        (result.ok /\ result.out = first)

(***************************************************************************)
(* src/src/parser/schema.rs                                                *)
(***************************************************************************)
schema_key(s) ==
    LET r == skip0(s).rest
        n == RunLen(r, Whitespace \cup {":"})
    IN  Ok(Drop(r, n), Take(r, n))

KwString == <<"s", "t", "r", "i", "n", "g">>

KwBool == <<"b", "o", "o", "l">>

KwNumber == <<"n", "u", "m", "b", "e", "r">>

\* A mutant of schema_type: the keywords are matched without regard to case of their
\* first letter.
schema_type_any_case(s) ==
    LET r == skip0(s).rest
        low == IF r # <<>> /\ r[1] \in {"S", "B", "N"}
               THEN <<CASE r[1] = "S" -> "s" [] r[1] = "B" -> "b" [] OTHER -> "n">> \o Tail(r)
               ELSE r
        a == tag(KwString, skip0(low).rest)
        b == tag(KwBool, skip0(low).rest)
        c == tag(KwNumber, skip0(low).rest)
    IN  IF a.ok THEN Ok(a.rest, "String")
        ELSE IF b.ok THEN Ok(b.rest, "Boolean")
        ELSE IF c.ok THEN Ok(c.rest, "Number")
        ELSE Err

schema_type(s) ==
    LET r == skip0(s).rest
        a == tag(KwString, skip0(r).rest)
        b == tag(KwBool, skip0(r).rest)
        c == tag(KwNumber, skip0(r).rest)
    IN  IF a.ok THEN Ok(a.rest, "String")
        ELSE IF b.ok THEN Ok(b.rest, "Boolean")
        ELSE IF c.ok THEN Ok(c.rest, "Number")
        ELSE Err

SchemaEntry(n, t) == [name |-> n, schema_type |-> t]

schema_entry(s) ==
    LET k == schema_key(s)
        c == colon(k.rest)
    IN  IF ~c.ok THEN Err
        ELSE LET t == schema_type(c.rest)
             IN  IF t.ok THEN Ok(t.rest, SchemaEntry(k.out, t.out)) ELSE Err

Schema(es) == [entries |-> es]

(***************************************************************************)
(* parse_schema, stepped: terminated(many0(schema_entry), preceded(skip0,  *)
(* eof)).                                                                  *)
(***************************************************************************)
\* The texts are built from these pieces: single characters, the keywords, a keyword
\* in another case and whole entries.
SchemaPieces ==
    { <<"a">>, <<":">>, <<" ">>, <<"\n">>, <<"#">>, KwString, KwBool, KwNumber,
      <<"B", "o", "o", "l">>,
      <<"a", ":">> \o KwString,
      <<"b", ":", " ">> \o KwNumber }

SchemaTexts == {Flatten(ps) : ps \in TextsUpTo(SchemaPieces, MaxPieces)}

InitSchema ==
    /\ input \in SchemaTexts
    /\ rest = input
    /\ pc = "many0"
    /\ kvs = <<>>
    /\ entries = <<>>
    /\ value = None
    /\ schema = None
    /\ result = None
    /\ pass = 1
    /\ first = None

\* One iteration of many0 (schema.rs:45).
ParseSchemaMany0 ==
    /\ pc = "many0"
    /\ LET r == schema_entry(rest)
       IN  IF r.ok
           THEN /\ entries' = Append(entries, r.out)
                /\ rest' = r.rest
                /\ pc' = "many0"
           ELSE /\ pc' = "eof"
                /\ UNCHANGED <<entries, rest>>
    /\ UNCHANGED <<input, kvs, value, schema, result, pass, first>>

\* preceded(skip0, eof) and the Schema built from the entries (schema.rs:44-46).
ParseSchemaEof ==
    /\ pc = "eof"
    /\ result' = IF skip0(rest).rest = <<>> THEN Ok(<<>>, Schema(entries)) ELSE Err
    /\ pc' = "done"
    /\ UNCHANGED <<input, rest, kvs, entries, value, schema, pass, first>>

NextSchema == ParseSchemaMany0 \/ ParseSchemaEof

SpecSchema == InitSchema /\ [][NextSchema]_vars

(***************************************************************************)
(* Claims about parse_schema                                               *)
(***************************************************************************)
\* A step of many0 that collected an entry.
EntryAccepted == pc = "many0" /\ pc' = "many0" /\ Len(entries') = Len(entries) + 1

NewEntry == entries'[Len(entries')]

Keyword(t) == CASE t = "String" -> KwString [] t = "Boolean" -> KwBool [] t = "Number" -> KwNumber

Keywords == {KwString, KwBool, KwNumber}

\* Every character of s is blank or part of a comment: it has a "#" or ";" before it on
\* its line.
BlankOrComment(s) ==
    \A i \in 1..Len(s) :
        \/ s[i] \in Multispace
        \/ \E j \in 1..i : s[j] \in {"#", ";"} /\ \A k \in j..i : s[k] \notin Newline

\* The text s, from the first character that is neither blank nor comment, is a name
\* and a ":" that no keyword follows.
NoKeywordAfterColon(s) ==
    LET t == skip0(s).rest
        c == skip0(Drop(t, RunLen(t, Whitespace \cup {":"}))).rest
    IN  /\ c # <<>>
        /\ c[1] = ":"
        /\ \A kw \in Keywords : ~IsPrefix(kw, skip0(Tail(c)).rest)

\* C9 (amended): the entries are the `key : type` units of the text in the order
\* written, the type being the keyword the text after the ":" starts with; the parse
\* succeeds, with these entries, only when nothing but blanks and comments follows
\* the last unit, and it fails when a ":" is not followed by a keyword.
C9_EntriesInOrderOrSyntaxError ==
    /\ [][EntryAccepted =>
             LET t == skip0(rest).rest
                 after == Drop(t, Len(NewEntry.name))
                 c == skip0(after).rest
                 ty == skip0(Tail(c)).rest
             IN  /\ IsPrefix(NewEntry.name, t)
                 /\ after # <<>> /\ after[1] \in Whitespace \cup {":"}
                 /\ c[1] = ":"
                 /\ NewEntry.schema_type \in {"String", "Boolean", "Number"}
                 /\ IsPrefix(Keyword(NewEntry.schema_type), ty)
                 /\ rest' = Drop(ty, Len(Keyword(NewEntry.schema_type)))
                 /\ entries' = Append(entries, NewEntry)]_vars
    /\ [](pc = "done" =>
             /\ result.ok => (result = Ok(<<>>, Schema(entries)) /\ BlankOrComment(rest))
             /\ ~BlankOrComment(rest) => result = Err
             /\ NoKeywordAfterColon(rest) => result = Err)

C9_Witness ==
    /\ input = <<"a", ":">> \o KwString \o <<" ">> \o <<"b", ":", " ">> \o KwNumber
    /\ pc = "done"
    /\ result.ok
    /\ result.out.entries = <<SchemaEntry(<<"a">>, "String"), SchemaEntry(<<"b">>, "Number")>>

RECURSIVE TypeLiterals(_)
\* The type literal of each unit of s: the characters after the unit's ":", up to the
\* next blank or comment.
TypeLiterals(s) ==
    LET e == schema_entry(s)
        k == schema_key(s)
        ty == skip0(colon(k.rest).rest).rest
    IN  IF e.ok
        THEN <<Take(ty, RunLen(ty, Whitespace \cup {"#", ";"}))>> \o TypeLiterals(e.rest)
        ELSE <<>>

\* C9: a schema (here: one whose names are not empty) parses only if the type literal
\* of every entry is exactly one of the three keywords, with no further character.
C9_TypeLiteralIsExactKeyword ==
    (pc = "done" /\ result.ok /\ \A i \in 1..Len(entries) : entries[i].name # <<>>) =>
        \A i \in 1..Len(TypeLiterals(input)) : TypeLiterals(input)[i] \in Keywords

\* The name n has one character or more, none of them whitespace or the separator sep.
WellFormedName(n, sep) ==
    /\ n # <<>>
    /\ \A i \in 1..Len(n) : n[i] \notin Whitespace \cup {sep}

\* C11: every key of the map of a successful parse_sysctl, and every name of the schema
\* of a successful parse_schema, has one character or more, none of them whitespace or
\* the separator ("=" for a key, ":" for a name); no unit with nothing before its
\* separator is collected.
C11_KeysAndNamesNotEmpty ==
    (pc = "done" /\ result.ok) =>
        /\ \A i \in 1..Len(kvs) : WellFormedName(kvs[i].key, "=")
        /\ \A i \in 1..Len(entries) : WellFormedName(entries[i].name, ":")
        /\ kvs # <<>> => \A k \in DOMAIN result.out : WellFormedName(k, "=")

(***************************************************************************)
(* src/src/types.rs                                                        *)
(***************************************************************************)
Digit == {"0", "1", "2", "3", "4", "5", "6", "7", "8", "9"}

Sign == {"+", "-"}

Lower(c) ==
    CASE c = "I" -> "i" [] c = "N" -> "n" [] c = "F" -> "f" [] c = "T" -> "t"
      [] c = "Y" -> "y" [] c = "A" -> "a" [] c = "E" -> "e" [] OTHER -> c

AllDigits(s) == \A i \in 1..Len(s) : s[i] \in Digit

\* value.parse::<f32>().is_ok(): an optional sign, then "inf", "infinity" or "nan" in
\* any case, or a decimal number with an optional exponent; the whole string, with no
\* blank before or after it.
parse_f32_is_ok(s) ==
    LET body == IF s # <<>> /\ s[1] \in Sign THEN Tail(s) ELSE s
        e == RunLen(body, {"e", "E"})
        mantissa == Take(body, e)
        exp == Drop(body, e + 1)
        digits == IF exp # <<>> /\ exp[1] \in Sign THEN Tail(exp) ELSE exp
    IN  \/ /\ Len(body) \in {3, 8}
           /\ [i \in 1..Len(body) |-> Lower(body[i])] \in
                 { <<"i", "n", "f">>, <<"n", "a", "n">>,
                   <<"i", "n", "f", "i", "n", "i", "t", "y">> }
        \/ /\ \A i \in 1..Len(body) : body[i] \in Digit \cup Sign \cup {".", "e", "E"}
           /\ \A i \in 1..Len(mantissa) : mantissa[i] \in Digit \cup {"."}
           /\ \E i \in 1..Len(mantissa) : mantissa[i] \in Digit
           /\ Cardinality({i \in 1..Len(mantissa) : mantissa[i] = "."}) <= 1
           /\ e < Len(body) => (digits # <<>> /\ AllDigits(digits))

LitTrue == <<"t", "r", "u", "e">>

LitFalse == <<"f", "a", "l", "s", "e">>

\* A mutant of from_str: a value that starts with "true" or "false" is a Boolean.
from_str_prefix(v) ==
    IF IsPrefix(LitTrue, v) \/ IsPrefix(LitFalse, v) THEN "Boolean"
    ELSE IF parse_f32_is_ok(v) THEN "Number"
    ELSE "String"

\* SchemaType::from_str
from_str(v) ==
    IF v = LitTrue \/ v = LitFalse THEN "Boolean"
    ELSE IF parse_f32_is_ok(v) THEN "Number"
    ELSE "String"

\* The values handed to from_str are built from these pieces.
ValuePieces ==
    { LitTrue, LitFalse, <<"T", "r", "u", "e">>, <<"?">>, <<"3">>, <<".">>, <<"1", "4">>,
      <<"e">>, <<"-">>, <<"i", "n", "f">>, <<" ">> }

ValueTexts == {Flatten(ps) : ps \in TextsUpTo(ValuePieces, MaxPieces)}

InitTypes ==
    /\ input \in ValueTexts
    /\ rest = <<>>
    /\ pc = "from_str"
    /\ kvs = <<>>
    /\ entries = <<>>
    /\ value = None
    /\ schema = None
    /\ result = None
    /\ pass = 1
    /\ first = None

FromStr ==
    /\ pc = "from_str"
    /\ result' = from_str(input)
    /\ pc' = "done"
    /\ UNCHANGED <<input, rest, kvs, entries, value, schema, pass, first>>

NextTypes == FromStr

SpecTypes == InitTypes /\ [][NextTypes]_vars

(***************************************************************************)
(* Claims about SchemaType::from_str                                       *)
(***************************************************************************)
\* s is digits, with at most one "." among them and at least one digit.
IsDecimal(s) ==
    \E p \in 0..Len(s) :
        /\ AllDigits(Take(s, p))
        /\ \/ p = Len(s) /\ p > 0
           \/ /\ p < Len(s)
              /\ s[p + 1] = "."
              /\ AllDigits(Drop(s, p + 1))
              /\ Len(s) > 1

Unsigned(s) == IF s # <<>> /\ s[1] \in Sign THEN Tail(s) ELSE s

\* The whole of s is a floating-point literal.
IsFloatLiteral(s) ==
    LET u == Unsigned(s)
    IN  \/ [i \in 1..Len(u) |-> Lower(u[i])] \in
              { <<"i", "n", "f">>, <<"n", "a", "n">>,
                <<"i", "n", "f", "i", "n", "i", "t", "y">> }
        \/ IsDecimal(u)
        \/ \E p \in 2..(Len(u) - 1) :
              /\ u[p] \in {"e", "E"}
              /\ IsDecimal(Take(u, p - 1))
              /\ Unsigned(Drop(u, p)) # <<>>
              /\ AllDigits(Unsigned(Drop(u, p)))

\* C5: from_str returns one of the three types for every string: Boolean exactly for
\* "true" and "false", otherwise Number exactly when the whole string is a
\* floating-point literal, otherwise String; "true?" and "3..14" are String and "LitTrue"
\* is not Boolean.
C5_InferencePrecedence ==
    pc = "done" =>
        /\ result \in {"Boolean", "Number", "String"}
        /\ result = "Boolean" <=> input \in {LitTrue, LitFalse}
        /\ result = "Number" <=> (input \notin {LitTrue, LitFalse} /\ IsFloatLiteral(input))
        /\ input = LitTrue \o <<"?">> => result = "String"
        /\ input = <<"3", ".", ".", "1", "4">> => result = "String"
        /\ input = <<"T", "r", "u", "e">> => result # "Boolean"

C5_Witness ==
    /\ pc = "done"
    /\ input = <<"3", ".", ".", "1", "4">>
    /\ result = "String"

(***************************************************************************)
(* src/src/validation.rs                                                   *)
(***************************************************************************)
MaxLineLen == 4096

MissingKey(k) == [tag |-> "MissingKey", key |-> k]

UnknownKey(k) == [tag |-> "UnknownKey", key |-> k]

WrongType(k, e, a) == [tag |-> "WrongType", key_name |-> k, expect |-> e, actual |-> a]

TooLongLine(k) == [tag |-> "TooLongLine", key |-> k]

\* The lengths of the lines of v that the line feeds at the positions nl end: a "\r"
\* before the line feed is not part of the line, and nothing follows a final line feed.
lengths_between(v, nl) ==
    LET starts == {a \in {1} \cup {n + 1 : n \in nl} : a <= Len(v)}
        end(a) == IF \E n \in nl : n >= a
                  THEN CHOOSE n \in nl : n >= a /\ \A m \in nl : m >= a => n <= m
                  ELSE Len(v) + 1
        length(a, e) == IF e <= Len(v) /\ e > a /\ v[e - 1] = "\r" THEN e - a - 1 ELSE e - a
    IN  {length(a, end(a)) : a \in starts}

\* line.chars().count() of every line of value.lines()
line_lengths(v) == lengths_between(v, {i \in 1..Len(v) : v[i] = "\n"})

\* A mutant of has_too_long_line: only a line of more than 4096 characters is too long.
has_line_over_limit(v) == \E n \in line_lengths(v) : n > MaxLineLen

\* value.lines().any(|line| line.chars().count() >= 4096)
has_too_long_line(v) == \E n \in line_lengths(v) : n >= MaxLineLen

\* A mutant of find: the last entry of the name.
find_last(es, k) ==
    IF \E i \in 1..Len(es) : es[i].name = k
    THEN es[CHOOSE i \in 1..Len(es) : es[i].name = k /\ \A j \in (i + 1)..Len(es) : es[j].name # k]
    ELSE None

\* schema.entries.iter().find(|entry| &entry.name == *common_key)
find(es, k) ==
    IF \E i \in 1..Len(es) : es[i].name = k
    THEN es[CHOOSE i \in 1..Len(es) : es[i].name = k /\ \A j \in 1..(i - 1) : es[j].name # k]
    ELSE None

\* A mutant of check_key: expect and actual are exchanged.
check_key_swapped(val, sch, k) ==
    LET schema_entry_ == find(sch.entries, k)
    IN  IF schema_entry_ = None \/ k \notin DOMAIN val THEN <<>>
        ELSE LET actual_type == from_str(val[k].value)
             IN  IF schema_entry_.schema_type = "String"
                 THEN IF has_too_long_line(val[k].value) THEN <<TooLongLine(k)>> ELSE <<>>
                 ELSE IF schema_entry_.schema_type # actual_type
                      THEN <<WrongType(k, actual_type, schema_entry_.schema_type)>>
                      ELSE <<>>

\* The body of the loop over common_keys (validation.rs:16-47): what one key adds to
\* wrong_types.
check_key(val, sch, k) ==
    LET schema_entry_ == find(sch.entries, k)
    IN  IF schema_entry_ = None \/ k \notin DOMAIN val THEN <<>>
        ELSE LET actual_type == from_str(val[k].value)
             IN  IF schema_entry_.schema_type = "String"
                 THEN IF has_too_long_line(val[k].value) THEN <<TooLongLine(k)>> ELSE <<>>
                 ELSE IF schema_entry_.schema_type # actual_type
                      THEN <<WrongType(k, schema_entry_.schema_type, actual_type)>>
                      ELSE <<>>

\* A mutant of schema_keys_iter: the names are kept as a list, a repeated name twice.
schema_names_list(es, order) == [i \in 1..Len(es) |-> es[i].name]

\* The names of the entries es as the hash set schema_keys iterates them, in the order
\* `order` (validation.rs:10): every name once.
schema_keys_iter(es, order) == order

\* A mutant of result_of: the first error only.
first_error_of(errors) ==
    IF errors = <<>> THEN [tag |-> "Ok"] ELSE [tag |-> "Err", errors |-> <<errors[1]>>]

\* validation.rs:65-69
result_of(errors) ==
    IF errors = <<>> THEN [tag |-> "Ok"] ELSE [tag |-> "Err", errors |-> errors]

\* A mutant of validate_by_schema: wrong_types is put into the list first.
validate_by_schema_types_first(val, sch, sorder, vorder) ==
    LET value_keys == DOMAIN val
        schema_keys == {sch.entries[i].name : i \in 1..Len(sch.entries)}
        siter == schema_keys_iter(sch.entries, sorder)
        missing_keys == SelectSeq(siter, LAMBDA k : k \notin value_keys)
        unknown_keys == SelectSeq(vorder, LAMBDA k : k \notin schema_keys)
        common_keys == siter \o unknown_keys
        wrong_types == Flatten([i \in 1..Len(common_keys) |-> check_key(val, sch, common_keys[i])])
        errors == wrong_types
                  \o [i \in 1..Len(missing_keys) |-> MissingKey(missing_keys[i])]
                  \o [i \in 1..Len(unknown_keys) |-> UnknownKey(unknown_keys[i])]
    IN  result_of(errors)

\* validate_by_schema, the hash sets schema_keys and value_keys iterating in the orders
\* sorder and vorder.
validate_by_schema(val, sch, sorder, vorder) ==
    LET value_keys == DOMAIN val
        schema_keys == {sch.entries[i].name : i \in 1..Len(sch.entries)}
        siter == schema_keys_iter(sch.entries, sorder)
        missing_keys == SelectSeq(siter, LAMBDA k : k \notin value_keys)
        unknown_keys == SelectSeq(vorder, LAMBDA k : k \notin schema_keys)
        common_keys == siter \o unknown_keys
        wrong_types == Flatten([i \in 1..Len(common_keys) |-> check_key(val, sch, common_keys[i])])
        errors == [i \in 1..Len(missing_keys) |-> MissingKey(missing_keys[i])]
                  \o [i \in 1..Len(unknown_keys) |-> UnknownKey(unknown_keys[i])]
                  \o wrong_types
    IN  result_of(errors)

Keys == {<<"k", "1">>, <<"k", "2">>, <<"k", "3">>}

Xs(n) == [i \in 1..n |-> "x"]

ShortValues == {LitTrue, <<"3", ".", "1", "4">>, LitTrue \o <<"?">>}

\* Long values: one line under the limit, one at the limit, two lines at the limit,
\* and a line under the limit that ends with "\r\n".
LongValues ==
    { Xs(MaxLineLen - 1),
      Xs(MaxLineLen),
      Xs(MaxLineLen) \o <<"\n">> \o Xs(MaxLineLen),
      Xs(MaxLineLen - 1) \o <<"\r", "\n", "x">> }

ConfigsOf(Values, Names) ==
    UNION {[K -> {SysctlValue(v, FALSE) : v \in Values}] : K \in SUBSET Names}

\* The configuration maps of short values, over any keys.
ShortConfigs == ConfigsOf(ShortValues, Keys)

\* The configuration maps of one key, with a long value.
LongConfigs == {c \in ConfigsOf(LongValues, {<<"k", "1">>}) : DOMAIN c # {}}

Types == {"String", "Boolean", "Number"}

Schemas ==
    {Schema(es) : es \in TextsUpTo({SchemaEntry(k, ty) : k \in Keys, ty \in Types}, MaxEntries)}

\* The schemas of at most two entries.
SmallSchemas == {s \in Schemas : Len(s.entries) <= 2}

InitValidation ==
    /\ \/ value \in ShortConfigs /\ schema \in Schemas
       \/ value \in LongConfigs /\ schema \in SmallSchemas
    /\ pc = "validate"
    /\ input = <<>>
    /\ rest = <<>>
    /\ kvs = <<>>
    /\ entries = <<>>
    /\ result = None
    /\ pass = 1
    /\ first = None

ValidateBySchema ==
    /\ pc = "validate"
    /\ \E sorder \in Orders({schema.entries[i].name : i \in 1..Len(schema.entries)}),
          vorder \in Orders(DOMAIN value) :
          result' = validate_by_schema(value, schema, sorder, vorder)
    /\ pc' = "done"
    /\ UNCHANGED <<input, rest, kvs, entries, value, schema, pass, first>>

NextValidation == ValidateBySchema

SpecValidation == InitValidation /\ [][NextValidation]_vars

(***************************************************************************)
(* Claims about validate_by_schema                                         *)
(***************************************************************************)
\* The error list of the result; empty for Ok.
Errors == IF result.tag = "Err" THEN result.errors ELSE <<>>

\* How often the error e is in the list.
Count(e) == Cardinality({i \in 1..Len(Errors) : Errors[i] = e})

SchemaNames == {schema.entries[i].name : i \in 1..Len(schema.entries)}

Missing == SchemaNames \ DOMAIN value

Unknown == DOMAIN value \ SchemaNames

Shared == SchemaNames \cap DOMAIN value

\* The type the schema declares for the name k: that of the first entry of this name.
Declared(k) ==
    LET i == CHOOSE i \in 1..Len(schema.entries) :
                 /\ schema.entries[i].name = k
                 /\ \A j \in 1..Len(schema.entries) : schema.entries[j].name = k => i <= j
    IN  schema.entries[i].schema_type

Inferred(k) == from_str(value[k].value)

\* v holds MaxLineLen characters in a row that belong to one line: none of them is a
\* line feed or the carriage return before a line feed.
HasLongLine(v) ==
    \E a \in 1..(Len(v) - MaxLineLen + 1) :
        \A i \in a..(a + MaxLineLen - 1) :
            /\ v[i] # "\n"
            /\ ~(v[i] = "\r" /\ i < Len(v) /\ v[i + 1] = "\n")

\* C1: the list holds one MissingKey for each name of the schema (however often the
\* schema lists it) that the map lacks, one UnknownKey for each key of the map that
\* the schema does not declare, and no other MissingKey or UnknownKey.
C1_MissingAndUnknownKeys ==
    pc = "done" =>
        /\ \A n \in Missing : Count(MissingKey(n)) = 1
        /\ \A n \in Unknown : Count(UnknownKey(n)) = 1
        /\ \A i \in 1..Len(Errors) :
              /\ Errors[i].tag = "MissingKey" => Errors[i].key \in Missing
              /\ Errors[i].tag = "UnknownKey" => Errors[i].key \in Unknown

C1_Witness ==
    /\ pc = "done"
    /\ \E i, j \in 1..Len(schema.entries) :
          i # j /\ schema.entries[i].name = schema.entries[j].name
                /\ schema.entries[i].name \in Missing
    /\ Unknown # {}
    /\ Len(Errors) = 2

\* The WrongType errors of the list about the key k.
WrongTypesOf(k) == {i \in 1..Len(Errors) : Errors[i].tag = "WrongType" /\ Errors[i].key_name = k}

\* C2: for a key of the map that the schema declares Boolean or Number, the list holds
\* WrongType exactly when the inferred type is another one, once, with expect the
\* declared and actual the inferred type; no WrongType is about a missing or an
\* unknown key.
C2_WrongTypeIffMismatch ==
    pc = "done" =>
        /\ \A k \in Shared :
              Declared(k) \in {"Boolean", "Number"} =>
                  IF Inferred(k) # Declared(k)
                  THEN /\ Cardinality(WrongTypesOf(k)) = 1
                       /\ Count(WrongType(k, Declared(k), Inferred(k))) = 1
                  ELSE WrongTypesOf(k) = {}
        /\ \A k \in Missing \cup Unknown : WrongTypesOf(k) = {}

C2_Witness ==
    /\ pc = "done"
    /\ \E k \in Shared :
          Count(WrongType(k, "Boolean", "String")) = 1 /\ value[k].value = LitTrue \o <<"?">>
    /\ \E k \in Shared : Declared(k) = "Number" /\ Inferred(k) = "Number"

Violations ==
    {MissingKey(n) : n \in Missing} \cup {UnknownKey(n) : n \in Unknown}
    \cup {WrongType(k, Declared(k), Inferred(k)) :
             k \in {j \in Shared : Declared(j) # "String" /\ Inferred(j) # Declared(j)}}
    \cup {TooLongLine(k) :
             k \in {j \in Shared : Declared(j) = "String" /\ HasLongLine(value[j].value)}}

\* C4: the result is Ok exactly when nothing is violated; a failure carries a list that
\* is not empty and holds every violation.
C4_OkIffNoViolation ==
    pc = "done" =>
        /\ result.tag \in {"Ok", "Err"}
        /\ result.tag = "Ok" <=> Violations = {}
        /\ result.tag = "Err" =>
              /\ result.errors # <<>>
              /\ {result.errors[i] : i \in 1..Len(result.errors)} = Violations

C4_Witness ==
    /\ pc = "done"
    /\ result.tag = "Err"
    /\ \E i, j, k \in 1..Len(result.errors) :
          /\ result.errors[i].tag = "MissingKey"
          /\ result.errors[j].tag = "UnknownKey"
          /\ result.errors[k].tag = "WrongType"

\* The group of an error in the list: missing keys, unknown keys, types and lengths.
Group(e) ==
    CASE e.tag = "MissingKey" -> 1
      [] e.tag = "UnknownKey" -> 2
      [] e.tag \in {"WrongType", "TooLongLine"} -> 3

\* C12: in every failure list the MissingKey errors come first, then the UnknownKey
\* errors, then the WrongType and TooLongLine errors: no error of an earlier group
\* follows one of a later group.
C12_ErrorsGrouped ==
    pc = "done" =>
        /\ \A i \in 1..Len(Errors) :
              Errors[i].tag \in {"MissingKey", "UnknownKey", "WrongType", "TooLongLine"}
        /\ \A i, j \in 1..Len(Errors) : i < j => Group(Errors[i]) <= Group(Errors[j])

C12_Witness ==
    /\ pc = "done"
    /\ Len(Errors) = 3
    /\ Errors[1].tag = "MissingKey"
    /\ Errors[2].tag = "UnknownKey"
    /\ Errors[3].tag = "WrongType"

\* The errors of the list about types and lengths.
TypeErrors(errors) ==
    {errors[i] : i \in {j \in 1..Len(errors) : errors[j].tag \in {"WrongType", "TooLongLine"}}}

\* The entries es without every entry whose name an earlier entry has.
FirstEntries(es) ==
    SelectSeq([i \in 1..Len(es) |-> IF \E j \in 1..(i - 1) : es[j].name = es[i].name
                                      THEN None ELSE es[i]],
              LAMBDA e : e # None)

\* The error list of the map against the schema without its later entries of a name.
ErrorsOfFirstEntries ==
    LET sch == Schema(FirstEntries(schema.entries))
        r == validate_by_schema(value, sch,
                                CHOOSE o \in Orders(SchemaNames) : TRUE,
                                CHOOSE o \in Orders(DOMAIN value) : TRUE)
    IN  IF r.tag = "Err" THEN r.errors ELSE <<>>

\* C13: a key is checked against the type of the first entry of its name only: the
\* WrongType and TooLongLine errors are those of the schema without the later entries
\* of a name, every WrongType expects the type of the first entry of its key, and
\* every TooLongLine is about a key whose first entry is a String.
C13_FirstEntryDecides ==
    pc = "done" =>
        /\ TypeErrors(Errors) = TypeErrors(ErrorsOfFirstEntries)
        /\ \A i \in 1..Len(Errors) :
              /\ Errors[i].tag = "WrongType" =>
                     Errors[i].expect = Declared(Errors[i].key_name)
              /\ Errors[i].tag = "TooLongLine" => Declared(Errors[i].key) = "String"

\* A Boolean entry and then a String entry of one name, the value being a String.
C13_Witness ==
    /\ pc = "done"
    /\ \E i, j \in 1..Len(schema.entries) :
          /\ i < j
          /\ schema.entries[i].name = schema.entries[j].name
          /\ schema.entries[i].schema_type = "Boolean"
          /\ schema.entries[j].schema_type = "String"
          /\ schema.entries[i].name \in Shared
          /\ Inferred(schema.entries[i].name) = "String"
          /\ Count(WrongType(schema.entries[i].name, "Boolean", "String")) = 1

====
